---- MODULE Spec2Model ----
(***************************************************************************)
(* Model of the bulk send worker (core/email_sender.py, EmailSenderThread)  *)
(* together with the part of the outcome store it writes through           *)
(* (core/database_manager.py, log_email / update_campaign).                *)
(*                                                                         *)
(* The worker thread executes run(); the interactive surface may call      *)
(* stop(), pause() and resume() at any moment.  Every externally visible   *)
(* effect of the worker (connection attempts, sends, log_email calls,      *)
(* emitted signals, sleeps) is appended to the history variable trace.     *)
(***************************************************************************)
EXTENDS Integers, Sequences, FiniteSets, TLC

\* ------------------------------------------------------------------ bounds
MaxRecipients == 2
MaxTotal == 50
MaxAddrLen == 7
MaxRows == 3
MaxTemplateLen == 3
MaxStarts == 3

\* ------------------------------------------------------- program constants
\* variant: one more connection attempt
max_retries_four == 3 + 1

max_retries == 3
retry_delay == 5

VARIABLES
    recipients_df,  \* the recipient table: sequence of [label, Email]
    should_stop,    \* self.should_stop
    is_paused,      \* self.is_paused
    successful,     \* self.successful
    failed,         \* self.failed
    pc,             \* position of the worker thread inside run()
    attempt,        \* connect_smtp: loop variable attempt (0-based)
    server,         \* the SMTP session: "none", "open", "closed", "broken"
    pos,            \* 1-based position of the row the for loop is at
    send_result,    \* outcome of the try block up to server.send_message
    waited,         \* the pause wait slept at least once in this iteration
    processed,      \* positions that passed both stop checks (history)
    trace,          \* history of the worker's visible effects
    summary,        \* payload of the finished signal, once emitted
    email_logs,     \* rows of table email_logs for the campaign
    campaign,       \* the campaign row of table campaigns
    fn_call,        \* a call of one of the side-effect-free functions
    fn_result,      \* what that call returned
    recipients,     \* MainWindow.recipients: its number of records
    threads,        \* every EmailSenderThread start_sending has started
    sender_thread   \* MainWindow.sender_thread: index into threads, 0: None

vars == <<recipients_df, should_stop, is_paused, successful, failed, pc,
          attempt, server, pos, send_result, waited, processed, trace,
          summary, email_logs, campaign, fn_call, fn_result,
          recipients, threads, sender_thread>>

\* ----------------------------------------------------------------- helpers
total == Len(recipients_df)

Event(k, p, s, n) == [kind |-> k, pos |-> p, status |-> s, n |-> n]

NoSummary == [emitted |-> FALSE, successful |-> 0, failed |-> 0]

\* no function call is being looked at
NoCall == [fn |-> "none"]

NoResult == [returned |-> FALSE]

Emails == {"", "addr"}

\* index labels as pandas keeps them after filtering rows of a RangeIndex
\* table: strictly increasing naturals
Labels == 0 .. MaxRecipients

StrictlyIncreasing(s) ==
    \A a, b \in 1 .. Len(s) : a < b => s[a].label < s[b].label

Tables ==
    { s \in UNION { [1 .. n -> [label : Labels, Email : Emails]]
                    : n \in 0 .. MaxRecipients } : StrictlyIncreasing(s) }

\* the pairs <<idx + 1, total>>, both in 1..64, at which the double
\* precision product ((idx + 1) / total) * 100 comes out just below the
\* whole number 100 * (idx + 1) / total, so that int() yields one less
FloatShort ==
    { <<23, 5>>, <<41, 5>>, <<46, 5>>, <<51, 5>>,
      <<23, 10>>, <<41, 10>>, <<46, 10>>, <<51, 10>>,
      <<23, 20>>, <<41, 20>>, <<46, 20>>, <<51, 20>>,
      <<29, 25>>, <<57, 25>>, <<58, 25>>, <<46, 40>>,
      <<29, 50>>, <<57, 50>>, <<58, 50>> }

\* int(((idx + 1) / total) * 100), for idx + 1 and total in 1..64
progress_percent(idx, tot) ==
    IF <<idx + 1, tot>> \in FloatShort
    THEN (((idx + 1) * 100) \div tot) - 1
    ELSE ((idx + 1) * 100) \div tot

\* --------------------------------------------------------------- strings
\* a string is a sequence of one-character strings
Letters == {"a", "A", "n", "N", "c", "v"}

Digits == {"1"}

\* str.lower on one character
lower_char(ch) ==
    IF ch = "A" THEN "a" ELSE IF ch = "N" THEN "n" ELSE ch

\* str.lower
lower(str) == [k \in 1 .. Len(str) |-> lower_char(str[k])]

RECURSIVE lstrip(_)
lstrip(str) ==
    IF str # << >> /\ Head(str) = " " THEN lstrip(Tail(str)) ELSE str

RECURSIVE rstrip(_)
rstrip(str) ==
    IF str # << >> /\ str[Len(str)] = " "
    THEN rstrip(SubSeq(str, 1, Len(str) - 1))
    ELSE str

\* str.strip
strip(str) == rstrip(lstrip(str))

\* pat in str
contains(str, pat) ==
    \E k \in 1 .. Len(str) - Len(pat) + 1 : SubSeq(str, k, k + Len(pat) - 1) = pat

\* str.replace(pat, val) for a non-empty pat: leftmost occurrences, not
\* overlapping, the inserted text is not searched again
RECURSIVE replace(_, _, _)
replace(str, pat, val) ==
    IF Len(str) < Len(pat) THEN str
    ELSE IF SubSeq(str, 1, Len(pat)) = pat
         THEN val \o replace(SubSeq(str, Len(pat) + 1, Len(str)), pat, val)
         ELSE << Head(str) >> \o replace(Tail(str), pat, val)

\* ------------------------------------------------------ address validation
\* the character class [a-zA-Z0-9._%+-]
local_class(ch) == ch \in Letters \cup Digits \cup {".", "_", "%", "+", "-"}

\* the character class [a-zA-Z0-9.-]
domain_class(ch) == ch \in Letters \cup Digits \cup {".", "-"}

\* re.match(r'^[a-zA-Z0-9._%+-]+@[a-zA-Z0-9.-]+\.[a-zA-Z]{2,}$', email),
\* for strings without a line break:
\* neither class admits "@", so there is exactly one; the top-level domain
\* admits no dot, so it starts after the last dot
pattern_matches(email) ==
    LET ats == { k \in 1 .. Len(email) : email[k] = "@" }
    IN /\ Cardinality(ats) = 1
       /\ LET at == CHOOSE k \in ats : TRUE
              dots == { k \in at + 1 .. Len(email) : email[k] = "." }
          IN /\ at > 1
             /\ \A k \in 1 .. at - 1 : local_class(email[k])
             /\ dots # {}
             /\ LET dot == CHOOSE k \in dots : \A j \in dots : j <= k
                IN /\ dot > at + 1
                   /\ \A k \in at + 1 .. dot - 1 : domain_class(email[k])
                   /\ Len(email) - dot >= 2
                   /\ \A k \in dot + 1 .. Len(email) : email[k] \in Letters

\* ExcelProcessor.validate_email
validate_email(email) == pattern_matches(email)

max_local_len == 64
max_domain_len == 255

\* EmailValidator.is_valid
is_valid(email) ==
    /\ email # << >>
    /\ pattern_matches(email)
    /\ ~contains(email, << ".", "." >>)
    /\ Head(email) # "."
    /\ email[Len(email)] # "."
    /\ LET at == CHOOSE k \in 1 .. Len(email) :
                    email[k] = "@" /\ \A j \in k + 1 .. Len(email) : email[j] # "@"
       IN /\ at - 1 <= max_local_len
          /\ Len(email) - at <= max_domain_len

\* ExcelProcessor.get_valid_recipients: keep the rows whose address passes
\* validate_email, then drop_duplicates(subset=['Email'], keep='first'),
\* which compares the stored strings; index labels are kept
RECURSIVE drop_duplicates(_, _)
drop_duplicates(df, seen) ==
    IF df = << >> THEN << >>
    ELSE IF Head(df).Email \in seen
         THEN drop_duplicates(Tail(df), seen)
         ELSE << Head(df) >> \o drop_duplicates(Tail(df), seen \cup {Head(df).Email})

get_valid_recipients(df) ==
    drop_duplicates(SelectSeq(df, LAMBDA r : validate_email(r.Email)), {})

\* --------------------------------------------------------------- rendering
\* EmailSenderThread.replace_placeholders: for each column of the row, in
\* index order, replace the literal "{" + col.lower() + "}"
RECURSIVE replace_placeholders(_, _)
replace_placeholders(text, row) ==
    IF row = << >> THEN text
    ELSE LET placeholder == << "{" >> \o lower(Head(row).col) \o << "}" >>
         IN replace_placeholders(replace(text, placeholder, Head(row).value),
                                 Tail(row))

\* self.subject: the subject template the worker was constructed with
subject == << "{", "n", "}" >>

\* the row of the table as replace_placeholders iterates over it: besides
\* the address every recipient has a Name column
series(r) == << [col |-> << "N" >>, value |-> << "v" >>] >>

\* personalized_subject in run
personalized_subject(r) == replace_placeholders(subject, series(r))

\* the character class [a-zA-Z0-9_]
identifier_class(ch) == ch \in Letters \cup Digits \cup {"_"}

\* PlaceholderValidator.extract_placeholders:
\* set(re.findall(r'\{([a-zA-Z0-9_]+)\}', text)); the class admits no
\* brace, so matches cannot overlap and every such substring is found
extract_placeholders(text) ==
    { SubSeq(text, i + 1, j - 1) :
        <<i, j>> \in { q \in (1 .. Len(text)) \X (1 .. Len(text)) :
                         /\ q[1] + 1 < q[2]
                         /\ text[q[1]] = "{"
                         /\ text[q[2]] = "}"
                         /\ \A k \in q[1] + 1 .. q[2] - 1 :
                               identifier_class(text[k]) } }

\* PlaceholderValidator.validate_placeholders: the placeholders for which
\* no column has the same lower-cased name (the list "missing")
validate_placeholders(text, available_columns) ==
    { ph \in extract_placeholders(text) :
        lower(ph) \notin { lower(col) : col \in available_columns } }

\* ------------------------------------------------------------ outcome store
\* variant: the CASE leaves out the increments of this statement
update_campaign_stale(c, s, f) ==
    [c EXCEPT !.successful = @ + s,
              !.failed = @ + f,
              !.end_time = IF c.successful + c.failed >= c.total_emails
                           THEN TRUE ELSE @]

\* DatabaseManager.update_campaign: one UPDATE statement; the CASE reads the
\* column values from before the increment.
update_campaign(c, s, f) ==
    [c EXCEPT !.successful = @ + s,
              !.failed = @ + f,
              !.end_time = IF c.successful + c.failed + s + f >= c.total_emails
                           THEN TRUE ELSE @]

\* variant: a failed INSERT surfaces in the caller as an exception
log_email_raises_propagating(insert_ok, update_ok) == ~insert_ok

\* DatabaseManager.log_email never lets an exception out: execute_query
\* rolls back and returns None, log_email catches everything else.
log_email_raises(insert_ok, update_ok) == FALSE

\* email_logs after log_email: the INSERT is its own transaction
logs_after(logs, p, subj, status, insert_ok) ==
    IF insert_ok
    THEN Append(logs, [pos |-> p, subject |-> subj, status |-> status])
    ELSE logs

\* campaigns after log_email: the UPDATE is a second transaction, executed
\* whether or not the INSERT went through
campaign_after(c, status, update_ok) ==
    IF ~update_ok THEN c
    ELSE IF status = "Success" THEN update_campaign(c, 1, 0)
    ELSE IF status = "Failed" THEN update_campaign(c, 0, 1)
    ELSE c

\* ---------------------------------------------------------------- initial
Init ==
    /\ recipients_df \in Tables
    /\ should_stop = FALSE
    /\ is_paused = FALSE
    /\ successful = 0
    /\ failed = 0
    /\ pc = "start"
    /\ attempt = 0
    /\ server = "none"
    /\ pos = 1
    /\ send_result = "none"
    /\ waited = FALSE
    /\ processed = << >>
    /\ trace = << >>
    /\ summary = NoSummary
    /\ email_logs = << >>
    /\ campaign = [total_emails |-> Len(recipients_df), successful |-> 0,
                   failed |-> 0, end_time |-> FALSE]
    /\ fn_call = NoCall
    /\ fn_result = NoResult
    /\ recipients = 0
    /\ threads = << >>
    /\ sender_thread = 0

\* ------------------------------------------------- interactive surface
stop ==
    /\ should_stop' = TRUE
    /\ UNCHANGED <<recipients, threads, sender_thread, fn_call, fn_result, recipients_df, is_paused, successful, failed, pc, attempt,
                   server, pos, send_result, waited, processed, trace,
                   summary, email_logs, campaign>>

pause ==
    /\ is_paused' = TRUE
    /\ UNCHANGED <<recipients, threads, sender_thread, fn_call, fn_result, recipients_df, should_stop, successful, failed, pc,
                   attempt, server, pos, send_result, waited, processed,
                   trace, summary, email_logs, campaign>>

resume ==
    /\ is_paused' = FALSE
    /\ UNCHANGED <<recipients, threads, sender_thread, fn_call, fn_result, recipients_df, should_stop, successful, failed, pc,
                   attempt, server, pos, send_result, waited, processed,
                   trace, summary, email_logs, campaign>>

\* ------------------------------------------------------------ worker: run
RunStart ==
    /\ pc = "start"
    /\ pc' = "connect"
    /\ UNCHANGED <<recipients, threads, sender_thread, fn_call, fn_result, recipients_df, should_stop, is_paused, successful, failed,
                   attempt, server, pos, send_result, waited, processed,
                   trace, summary, email_logs, campaign>>

\* variant: the authentication error falls into the generic except clause
ConnectAttempt_auth_retried ==
    /\ pc = "connect"
    /\ attempt < max_retries
    /\ \E r \in {"ok", "auth", "transient"} :
        /\ CASE r = "ok" ->
                  /\ server' = "open"
                  /\ pc' = "loop_top"
                  /\ attempt' = attempt
                  /\ trace' = Append(trace, Event("connect", attempt + 1, r, 0))
             [] r \in {"auth", "transient"} /\ attempt < max_retries - 1 ->
                  /\ server' = "none"
                  /\ pc' = "connect"
                  /\ attempt' = attempt + 1
                  /\ trace' = trace \o
                       << Event("connect", attempt + 1, r, 0),
                          Event("retry_sleep", attempt + 1, "", retry_delay) >>
             [] OTHER ->
                  /\ server' = "none"
                  /\ pc' = "connect_failed"
                  /\ attempt' = attempt
                  /\ trace' = Append(trace, Event("connect", attempt + 1, r, 0))
    /\ UNCHANGED <<recipients, threads, sender_thread, fn_call, fn_result, recipients_df, should_stop, is_paused,
                   successful, failed, pos, send_result, waited, processed,
                   summary, email_logs, campaign>>

\* one iteration of the retry loop of connect_smtp
ConnectAttempt ==
    /\ pc = "connect"
    /\ attempt < max_retries
    /\ \E r \in {"ok", "auth", "transient"} :
        /\ CASE r = "ok" ->
                  /\ server' = "open"
                  /\ pc' = "loop_top"
                  /\ attempt' = attempt
                  /\ trace' = Append(trace, Event("connect", attempt + 1, r, 0))
             [] r = "auth" ->
                  /\ server' = "none"
                  /\ pc' = "connect_failed"
                  /\ attempt' = attempt
                  /\ trace' = Append(trace, Event("connect", attempt + 1, r, 0))
             [] r = "transient" /\ attempt < max_retries - 1 ->
                  /\ server' = "none"
                  /\ pc' = "connect"
                  /\ attempt' = attempt + 1
                  /\ trace' = trace \o
                       << Event("connect", attempt + 1, r, 0),
                          Event("retry_sleep", attempt + 1, "", retry_delay) >>
             [] OTHER ->
                  /\ server' = "none"
                  /\ pc' = "connect_failed"
                  /\ attempt' = attempt
                  /\ trace' = Append(trace, Event("connect", attempt + 1, r, 0))
    /\ UNCHANGED <<recipients, threads, sender_thread, fn_call, fn_result, recipients_df, should_stop, is_paused, successful, failed,
                   pos, send_result, waited, processed, summary, email_logs,
                   campaign>>

\* variant: the missing return lets run fall through to the final summary
ConnectFailed_no_return ==
    /\ pc = "connect_failed"
    /\ summary' = [emitted |-> TRUE, successful |-> 0, failed |-> total]
    /\ trace' = Append(trace, Event("finished", 0, "", 0))
    /\ pc' = "finish"
    /\ UNCHANGED <<recipients, threads, sender_thread, fn_call, fn_result, recipients_df, should_stop, is_paused,
                   successful, failed, attempt, server, pos, send_result,
                   waited, processed, email_logs, campaign>>

\* variant: the summary of a failed connection is built from the counters
ConnectFailed_counters ==
    /\ pc = "connect_failed"
    /\ summary' = [emitted |-> TRUE, successful |-> successful, failed |-> failed]
    /\ trace' = Append(trace, Event("finished", 0, "", 0))
    /\ pc' = "done"
    /\ UNCHANGED <<recipients, threads, sender_thread, fn_call, fn_result, recipients_df, should_stop, is_paused, successful, failed,
                   attempt, server, pos, send_result, waited, processed,
                   email_logs, campaign>>

\* run, "if not server": finished is emitted with the literal 0 and total
ConnectFailed ==
    /\ pc = "connect_failed"
    /\ summary' = [emitted |-> TRUE, successful |-> 0, failed |-> total]
    /\ trace' = Append(trace, Event("finished", 0, "", 0))
    /\ pc' = "done"
    /\ UNCHANGED <<recipients, threads, sender_thread, fn_call, fn_result, recipients_df, should_stop, is_paused, successful, failed,
                   attempt, server, pos, send_result, waited, processed,
                   email_logs, campaign>>

\* variant: a set stop flag goes straight to the summary
LoopTop_return ==
    /\ pc = "loop_top"
    /\ IF should_stop
       THEN pc' = "finish"
       ELSE IF pos > total THEN pc' = "quit" ELSE pc' = "pause_wait"
    /\ UNCHANGED <<recipients, threads, sender_thread, fn_call, fn_result, recipients_df, should_stop, is_paused,
                   successful, failed, attempt, server, pos, send_result,
                   waited, processed, trace, summary, email_logs, campaign>>

\* head of the for loop and the first stop check
LoopTop ==
    /\ pc = "loop_top"
    /\ IF pos > total \/ should_stop
       THEN pc' = "quit"
       ELSE pc' = "pause_wait"
    /\ UNCHANGED <<recipients, threads, sender_thread, fn_call, fn_result, recipients_df, should_stop, is_paused, successful, failed,
                   attempt, server, pos, send_result, waited, processed,
                   trace, summary, email_logs, campaign>>

\* variant: the wait loop tests is_paused only
PauseWait_stop_blind ==
    /\ pc = "pause_wait"
    /\ IF is_paused
       THEN /\ waited' = TRUE
            /\ pc' = "pause_wait"
       ELSE /\ waited' = waited
            /\ pc' = "stop_check"
    /\ UNCHANGED <<recipients, threads, sender_thread, fn_call, fn_result, recipients_df, should_stop, is_paused, successful, failed,
                   attempt, server, pos, send_result, processed, trace,
                   summary, email_logs, campaign>>

\* variant: the wait loop is missing
PauseWait_pause_blind ==
    /\ pc = "pause_wait"
    /\ waited' = waited
    /\ pc' = "stop_check"
    /\ UNCHANGED <<recipients, threads, sender_thread, fn_call, fn_result, recipients_df, should_stop, is_paused, successful, failed,
                   attempt, server, pos, send_result, processed, trace,
                   summary, email_logs, campaign>>

\* while self.is_paused and not self.should_stop: time.sleep(0.5)
PauseWait ==
    /\ pc = "pause_wait"
    /\ IF is_paused /\ ~should_stop
       THEN /\ waited' = TRUE
            /\ pc' = "pause_wait"
       ELSE /\ waited' = waited
            /\ pc' = "stop_check"
    /\ UNCHANGED <<recipients, threads, sender_thread, fn_call, fn_result, recipients_df, should_stop, is_paused, successful, failed,
                   attempt, server, pos, send_result, processed, trace,
                   summary, email_logs, campaign>>

\* variant: no stop check after the pause wait
StopCheck_ignored ==
    /\ pc = "stop_check"
    /\ pc' = "process"
    /\ processed' = Append(processed, pos)
    /\ UNCHANGED <<recipients, threads, sender_thread, fn_call, fn_result, recipients_df, should_stop, is_paused, successful, failed,
                   attempt, server, pos, send_result, waited, trace, summary,
                   email_logs, campaign>>

\* the second stop check, after the pause wait
StopCheck ==
    /\ pc = "stop_check"
    /\ IF should_stop
       THEN /\ pc' = "quit"
            /\ processed' = processed
       ELSE /\ pc' = "process"
            /\ processed' = Append(processed, pos)
    /\ UNCHANGED <<recipients, threads, sender_thread, fn_call, fn_result, recipients_df, should_stop, is_paused, successful, failed,
                   attempt, server, pos, send_result, waited, trace, summary,
                   email_logs, campaign>>

\* variant: the failure is counted only when there is an address to log
handle_failed_email_uncounted(recipient_email, p, tr, logs, camp, insert_ok, update_ok) ==
    IF recipient_email # ""
    THEN /\ failed' = failed + 1
         /\ trace' = tr \o << Event("log_email", p, "Failed", 1),
                             Event("log_event", p, "Failed", 1) >>
         /\ email_logs' = logs_after(logs, p, subject, "Failed", insert_ok)
         /\ campaign' = campaign_after(camp, "Failed", update_ok)
    ELSE /\ failed' = failed
         /\ trace' = tr
         /\ email_logs' = logs
         /\ campaign' = camp

\* handle_failed_email, applied to the history tr and store (logs, camp)
\* that the try block left behind
handle_failed_email(recipient_email, p, tr, logs, camp, insert_ok, update_ok) ==
    /\ failed' = failed + 1
    /\ IF recipient_email # ""
       THEN /\ trace' = tr \o << Event("log_email", p, "Failed", 1),
                                Event("log_event", p, "Failed", 1) >>
            /\ email_logs' = logs_after(logs, p, subject, "Failed", insert_ok)
            /\ campaign' = campaign_after(camp, "Failed", update_ok)
       ELSE /\ trace' = tr
            /\ email_logs' = logs
            /\ campaign' = camp

\* variant: only smtplib.SMTPException is caught per recipient
except_clause_smtp_only(r) ==
    IF r = "ok" THEN "none"
    ELSE IF r = "smtp" THEN "smtp_handler"
    ELSE "uncaught"

\* which except clause of the per-recipient try statement takes an
\* exception of class r ("ok": nothing was raised)
except_clause(r) ==
    IF r = "ok" THEN "none"
    ELSE IF r = "smtp" THEN "smtp_handler"
    ELSE "generic_handler"

\* the error_msg the except clauses hand to handle_failed_email for an
\* exception of class r
error_msg(r) ==
    IF r = "value_error" THEN "No email address found"
    ELSE IF r = "smtp" THEN "SMTP Error: ..."
    ELSE IF r = "other" THEN "..."
    ELSE ""

\* variant: the address is not tested before the message is built and sent
Process_unchecked ==
    /\ pc = "process"
    /\ \E r \in {"ok", "smtp", "other"} :
          /\ send_result' = r
          /\ trace' = Append(trace, Event("send", pos, r, 0))
    /\ pc' = "after_send"
    /\ UNCHANGED <<recipients, threads, sender_thread, fn_call, fn_result, recipients_df, should_stop, is_paused, successful, failed,
                   attempt, server, pos, waited, processed, summary,
                   email_logs, campaign>>

\* the per-recipient try block up to and including server.send_message;
\* an empty address raises ValueError before anything is rendered or sent
Process ==
    /\ pc = "process"
    /\ LET row == recipients_df[pos] IN
       IF row.Email = ""
       THEN /\ send_result' = "value_error"
            /\ trace' = trace
       ELSE \E r \in {"ok", "smtp", "other"} :
               /\ send_result' = r
               /\ trace' = Append(trace, Event("send", pos, r, 0))
    /\ pc' = "after_send"
    /\ UNCHANGED <<recipients, threads, sender_thread, fn_call, fn_result, recipients_df, should_stop, is_paused, successful, failed,
                   attempt, server, pos, waited, processed, summary,
                   email_logs, campaign>>

\* what follows server.send_message: the success bookkeeping of the try
\* block, or the except clause that takes the exception.  An exception no
\* clause takes would leave the loop for the outer handler.
AfterSend ==
    /\ pc = "after_send"
    /\ LET row == recipients_df[pos] IN
       \E insert_ok \in BOOLEAN, update_ok \in BOOLEAN :
          IF send_result = "ok"
          THEN /\ successful' = successful + 1
               /\ pc' = "progress"
               /\ LET tr1 == Append(trace, Event("log_email", pos, "Success", 0))
                      logs1 == logs_after(email_logs, pos, personalized_subject(row),
                                         "Success", insert_ok)
                      camp1 == campaign_after(campaign, "Success", update_ok)
                  IN IF log_email_raises(insert_ok, update_ok)
                     THEN handle_failed_email(row.Email, pos, tr1, logs1, camp1,
                                              insert_ok, update_ok)
                     ELSE /\ trace' = Append(tr1, Event("log_event", pos, "Success", 0))
                          /\ email_logs' = logs1
                          /\ campaign' = camp1
                          /\ failed' = failed
          ELSE IF except_clause(send_result) \in {"smtp_handler", "generic_handler"}
          THEN /\ successful' = successful
               /\ pc' = "progress"
               /\ handle_failed_email(row.Email, pos, trace, email_logs,
                                      campaign, insert_ok, update_ok)
          ELSE /\ pc' = "finish"
               /\ trace' = Append(trace, Event("critical", pos, "", 0))
               /\ UNCHANGED <<successful, failed, email_logs, campaign>>
    /\ send_result' = "none"
    /\ UNCHANGED <<recipients, threads, sender_thread, fn_call, fn_result, recipients_df, should_stop, is_paused, attempt, server,
                   pos, waited, processed, summary>>

\* self.progress.emit(progress_percent)
Progress ==
    /\ pc = "progress"
    /\ trace' = Append(trace, Event("progress", pos, "",
                       progress_percent(recipients_df[pos].label, total)))
    /\ pc' = "pace"
    /\ UNCHANGED <<recipients, threads, sender_thread, fn_call, fn_result, recipients_df, should_stop, is_paused, successful, failed,
                   attempt, server, pos, send_result, waited, processed,
                   summary, email_logs, campaign>>

\* variant: the rate limiting test does not look at should_stop
Pace_stop_blind ==
    /\ pc = "pace"
    /\ IF recipients_df[pos].label < total - 1
       THEN trace' = Append(trace, Event("sleep", pos, "", 0))
       ELSE trace' = trace
    /\ pos' = pos + 1
    /\ waited' = FALSE
    /\ pc' = "loop_top"
    /\ UNCHANGED <<recipients, threads, sender_thread, fn_call, fn_result, recipients_df, should_stop, is_paused, successful, failed,
                   attempt, server, send_result, processed, summary,
                   email_logs, campaign>>

\* variant: after a pause the loop starts over from the first row
Pace_restart ==
    /\ pc = "pace"
    /\ IF recipients_df[pos].label < total - 1 /\ ~should_stop
       THEN trace' = Append(trace, Event("sleep", pos, "", 0))
       ELSE trace' = trace
    /\ pos' = IF waited THEN 1 ELSE pos + 1
    /\ waited' = FALSE
    /\ pc' = "loop_top"
    /\ UNCHANGED <<recipients, threads, sender_thread, fn_call, fn_result, recipients_df, should_stop, is_paused, successful, failed,
                   attempt, server, send_result, processed, summary,
                   email_logs, campaign>>

\* the rate limiting delay, then on to the next row
Pace ==
    /\ pc = "pace"
    /\ IF recipients_df[pos].label < total - 1 /\ ~should_stop
       THEN trace' = Append(trace, Event("sleep", pos, "", 0))
       ELSE trace' = trace
    /\ pos' = pos + 1
    /\ waited' = FALSE
    /\ pc' = "loop_top"
    /\ UNCHANGED <<recipients, threads, sender_thread, fn_call, fn_result, recipients_df, should_stop, is_paused, successful, failed,
                   attempt, server, send_result, processed, summary,
                   email_logs, campaign>>

\* server.quit() after the loop; if it raises, the outer handler reports a
\* critical error and run goes on to the summary
Quit ==
    /\ pc = "quit"
    /\ \E ok \in BOOLEAN :
          /\ server' = IF ok THEN "closed" ELSE "broken"
          /\ trace' = Append(trace, Event("quit", 0, IF ok THEN "ok" ELSE "error", 0))
    /\ pc' = "finish"
    /\ UNCHANGED <<recipients, threads, sender_thread, fn_call, fn_result, recipients_df, should_stop, is_paused, successful, failed,
                   attempt, pos, send_result, waited, processed, summary,
                   email_logs, campaign>>

\* self.finished.emit({...}) at the end of run
Finish ==
    /\ pc = "finish"
    /\ summary' = [emitted |-> TRUE, successful |-> successful, failed |-> failed]
    /\ trace' = Append(trace, Event("finished", 0, "", 0))
    /\ pc' = "done"
    /\ UNCHANGED <<recipients, threads, sender_thread, fn_call, fn_result, recipients_df, should_stop, is_paused, successful, failed,
                   attempt, server, pos, send_result, waited, processed,
                   email_logs, campaign>>

Next ==
    \/ stop
    \/ pause
    \/ resume
    \/ RunStart
    \/ ConnectAttempt
    \/ ConnectFailed
    \/ LoopTop
    \/ PauseWait
    \/ StopCheck
    \/ Process
    \/ AfterSend
    \/ Progress
    \/ Pace
    \/ Quit
    \/ Finish

Spec == Init /\ [][Next]_vars

\* the steps of the worker thread
Worker ==
    \/ RunStart
    \/ ConnectAttempt
    \/ ConnectFailed
    \/ LoopTop
    \/ PauseWait
    \/ StopCheck
    \/ Process
    \/ AfterSend
    \/ Progress
    \/ Pace
    \/ Quit
    \/ Finish

\* the runs looked at for termination start from a table with the index
\* read_file gives it (0, 1, 2, ...): the labels reach only the progress
\* value and the pacing sleep, never the control flow
InitLive ==
    /\ Init
    /\ \A k \in 1 .. Len(recipients_df) : recipients_df[k].label = k - 1

\* the worker thread is scheduled: QThread.start() runs run() on a thread
\* of its own, every network call and every sleep returns
SpecLive == InitLive /\ [][Next]_vars /\ WF_vars(Worker)

\* ------------------------------------------- the side-effect-free functions
\* A second specification: one call of one function, on arguments drawn
\* from bounded sets; the worker does not run.
SeqsUpTo(S, n) == UNION { [1 .. k -> S] : k \in 0 .. n }

AddrAlphabet == {"a", "1", ".", "@"}

SampleEmails ==
    { << "a", "@", "a", ".", "a", "a" >>,
      << "A", "@", "a", ".", "a", "a" >>,
      << "a", "@", "a", ".", "a", "a", " " >>,
      << "a", "@", "a" >>,
      << >> }

\* tables as read_file leaves them: a RangeIndex, any stored address
SheetTables ==
    { [k \in 1 .. Len(e) |-> [label |-> k - 1, Email |-> e[k]]]
      : e \in SeqsUpTo(SampleEmails, MaxRows) }

TemplateAlphabet == {"{", "}", "n", "N"}

ColumnNames == { << "n" >>, << "N" >>, << "c" >> }

CellValues == { << "v" >>, << "{", "n", "}" >>, << "{", "c", "}" >> }

DataRows ==
    { r \in UNION { [1 .. k -> [col : ColumnNames, value : CellValues]]
                    : k \in 1 .. 2 } :
        \A a, b \in 1 .. Len(r) : a # b => r[a].col # r[b].col }

Calls ==
    { [fn |-> "progress_percent", idx |-> k[1], total |-> k[2]]
        : k \in { q \in (0 .. MaxTotal) \X (1 .. MaxTotal) : q[1] < q[2] } }
    \cup { [fn |-> "validate_email", email |-> e]
             : e \in SeqsUpTo(AddrAlphabet, MaxAddrLen) }
    \cup { [fn |-> "get_valid_recipients", df |-> d] : d \in SheetTables }
    \cup { [fn |-> "replace_placeholders", text |-> t, row |-> r]
             : t \in SeqsUpTo(TemplateAlphabet, MaxTemplateLen), r \in DataRows }

InitFn ==
    /\ fn_call \in Calls
    /\ fn_result = NoResult
    /\ recipients_df = << >>
    /\ should_stop = FALSE
    /\ is_paused = FALSE
    /\ successful = 0
    /\ failed = 0
    /\ pc = "start"
    /\ attempt = 0
    /\ server = "none"
    /\ pos = 1
    /\ send_result = "none"
    /\ waited = FALSE
    /\ processed = << >>
    /\ trace = << >>
    /\ summary = NoSummary
    /\ email_logs = << >>
    /\ campaign = [total_emails |-> 0, successful |-> 0, failed |-> 0,
                   end_time |-> FALSE]
    /\ recipients = 0
    /\ threads = << >>
    /\ sender_thread = 0

Returns(v) ==
    /\ ~fn_result.returned
    /\ fn_result' = [returned |-> TRUE, value |-> v]
    /\ UNCHANGED <<recipients, threads, sender_thread,
                   fn_call, recipients_df, should_stop, is_paused, successful,
                   failed, pc, attempt, server, pos, send_result, waited,
                   processed, trace, summary, email_logs, campaign>>

CallProgressPercent ==
    /\ fn_call.fn = "progress_percent"
    /\ Returns(progress_percent(fn_call.idx, fn_call.total))

CallValidateEmail ==
    /\ fn_call.fn = "validate_email"
    /\ Returns(validate_email(fn_call.email))

CallGetValidRecipients ==
    /\ fn_call.fn = "get_valid_recipients"
    /\ Returns(get_valid_recipients(fn_call.df))

CallReplacePlaceholders ==
    /\ fn_call.fn = "replace_placeholders"
    /\ Returns(replace_placeholders(fn_call.text, fn_call.row))

NextFn ==
    \/ CallProgressPercent
    \/ CallValidateEmail
    \/ CallGetValidRecipients
    \/ CallReplacePlaceholders

SpecFn == InitFn /\ [][NextFn]_vars

Returned(f) == fn_call.fn = f /\ fn_result.returned

\* ------------------------------------------------- the interactive surface
\* A third specification: the main window's handlers that load recipients
\* and launch workers.  A launched worker is followed only up to the
\* emission of its finished signal.
InitUi ==
    /\ recipients = 0
    /\ threads = << >>
    /\ sender_thread = 0
    /\ fn_call = NoCall
    /\ fn_result = NoResult
    /\ recipients_df = << >>
    /\ should_stop = FALSE
    /\ is_paused = FALSE
    /\ successful = 0
    /\ failed = 0
    /\ pc = "start"
    /\ attempt = 0
    /\ server = "none"
    /\ pos = 1
    /\ send_result = "none"
    /\ waited = FALSE
    /\ processed = << >>
    /\ trace = << >>
    /\ summary = NoSummary
    /\ email_logs = << >>
    /\ campaign = [total_emails |-> 0, successful |-> 0, failed |-> 0,
                   end_time |-> FALSE]

\* the numbers of records a recipient file can hold
load_recipients == 0 .. MaxRecipients

\* MainWindow.import_recipients: no file chosen, the loader raised (the
\* handler reports it and keeps the list), or the list is replaced
import_recipients ==
    /\ \E file_chosen \in BOOLEAN, raised \in BOOLEAN, n \in load_recipients :
          recipients' = IF file_chosen /\ ~raised THEN n ELSE recipients
    /\ UNCHANGED <<threads, sender_thread, fn_call, fn_result, recipients_df,
                   should_stop, is_paused, successful, failed, pc, attempt,
                   server, pos, send_result, waited, processed, trace,
                   summary, email_logs, campaign>>

\* MainWindow.validate_before_send
validate_before_send(credentials_set, subject_input, body_html) ==
    /\ credentials_set
    /\ recipients # 0
    /\ subject_input # ""
    /\ body_html # ""

\* MainWindow.start_sending: the validation, the SMTP settings and the
\* campaign row can each end the handler early; otherwise a new
\* EmailSenderThread is created, stored in self.sender_thread and started
start_sending ==
    /\ Len(threads) < MaxStarts
    /\ \E credentials_set \in BOOLEAN, server_set \in BOOLEAN,
          subject_input \in {"", "s"}, body_html \in {"", "b"}, campaign_id \in {"none", "id"} :
          IF /\ validate_before_send(credentials_set, subject_input, body_html)
             /\ credentials_set /\ server_set
             /\ campaign_id # "none"
          THEN /\ threads' = Append(threads, [state |-> "running", total |-> recipients])
               /\ sender_thread' = Len(threads) + 1
          ELSE UNCHANGED <<threads, sender_thread>>
    /\ UNCHANGED <<recipients, fn_call, fn_result, recipients_df, should_stop,
                   is_paused, successful, failed, pc, attempt, server, pos,
                   send_result, waited, processed, trace, summary, email_logs,
                   campaign>>

\* a started worker reaches the finished signal of run
run_finished ==
    /\ \E i \in 1 .. Len(threads) :
          /\ threads[i].state = "running"
          /\ threads' = [threads EXCEPT ![i].state = "finished"]
    /\ UNCHANGED <<recipients, sender_thread, fn_call, fn_result, recipients_df,
                   should_stop, is_paused, successful, failed, pc, attempt,
                   server, pos, send_result, waited, processed, trace,
                   summary, email_logs, campaign>>

NextUi ==
    \/ import_recipients
    \/ start_sending
    \/ run_finished

SpecUi == InitUi /\ [][NextUi]_vars

\* the started workers that have not emitted finished
Running == { i \in 1 .. Len(threads) : threads[i].state = "running" }

\* ------------------------------------------------------- reading the trace
InSeq(x, s) == \E k \in 1 .. Len(s) : s[k] = x

\* trace indices of the events of kind k for the row at position p
EventsAt(k, p) == { m \in 1 .. Len(trace) : trace[m].kind = k /\ trace[m].pos = p }

Count(k, p) == Cardinality(EventsAt(k, p))

EventsOf(k) == { m \in 1 .. Len(trace) : trace[m].kind = k }

\* the row at position p went through the whole per-recipient try statement
Handled(p) ==
    /\ InSeq(p, processed)
    /\ \/ p < pos
       \/ pc \in {"progress", "pace"}

\* a session was never established (connect_smtp returned None)
NoSession == pc \in {"connect_failed", "done"} /\ server = "none"

\* rows the loop never reached.  When no session could be established run
\* reports every row as failed, so none is left over as unprocessed.
Unprocessed == IF NoSession THEN 0 ELSE total - Len(processed)

\* a step of the worker thread (the interactive surface only sets flags)
WorkerStep == should_stop' = should_stop /\ is_paused' = is_paused

\* ------------------------------------------------------------------ claims

C2_NoDoubleCount ==
    [][ /\ successful' >= successful
        /\ failed' >= failed
        /\ (successful' - successful) + (failed' - failed)
             = IF pc = "after_send" /\ pc' = "progress" THEN 1 ELSE 0 ]_vars

\* a send went through, the INSERT of its outcome failed, and the recipient
\* is counted as successful only
C2_Witness ==
    /\ pc = "progress"
    /\ pos = 1
    /\ Count("send", 1) = 1
    /\ email_logs = << >>
    /\ successful = 1
    /\ failed = 0

\* C3 (as claimed): every handled recipient has exactly one log_email call
\* and exactly one log event, also when its address is empty.
C3_OneRecordPerRecipient ==
    \A p \in 1 .. total :
        Handled(p) => Count("log_email", p) = 1 /\ Count("log_event", p) = 1

\* C4: after a failed connect_smtp the summary is successful = 0,
\* failed = total, and the run has made no send and emitted no progress.
C4_ConnectFailure ==
    (pc = "done" /\ server = "none") =>
        /\ summary.emitted
        /\ summary.successful = 0
        /\ summary.failed = total
        /\ EventsOf("send") = {}
        /\ EventsOf("progress") = {}
        /\ processed = << >>

\* all three connection attempts failed, with two recipients waiting
C4_Witness ==
    /\ pc = "done"
    /\ server = "none"
    /\ attempt = max_retries - 1
    /\ total = 2
    /\ summary.failed = 2

\* C5 (as claimed): at the end of a run the number of log_email calls with
\* status Failed and a non-empty error detail equals the failed count of
\* the summary.
C5_FailuresPersisted ==
    pc = "done" =>
        Cardinality({ m \in EventsOf("log_email") :
                        trace[m].status = "Failed" /\ trace[m].n = 1 })
          = summary.failed

\* handling the row at position p ended in one of the except clauses
FailedAt(p) ==
    /\ InSeq(p, processed)
    /\ \/ recipients_df[p].Email = ""
       \/ \E m \in EventsAt("send", p) : trace[m].status \in {"smtp", "other"}

\* C6: an error local to one recipient does not end the run: in a finished
\* run during which stop() was never called, a recipient whose handling
\* raised (SMTP error, other exception, empty address) and which is not the
\* last one is followed by the processing of the next one.
C6_LocalErrorContinues ==
    (pc = "done" /\ ~should_stop /\ ~NoSession) =>
        \A p \in 1 .. total - 1 :
            FailedAt(p) => InSeq(p + 1, processed) /\ Handled(p + 1)

\* the first send raised a non-SMTP exception and the second row was sent
C6_Witness ==
    /\ pc = "done"
    /\ ~should_stop
    /\ total = 2
    /\ \E m \in EventsAt("send", 1) : trace[m].status = "other"
    /\ Count("send", 2) = 1

\* C7: a set stop flag seen at the top of an iteration or after the pause
\* wait takes the worker out of the loop, and a recipient that did not pass
\* both checks has no send, no log_email call, no stored row and no log
\* event, and the counters cover the processed recipients only.
C7_StopLeavesRestUntouched ==
    /\ [][ (pc \in {"loop_top", "stop_check"} /\ should_stop /\ WorkerStep)
              => (pc' = "quit" /\ processed' = processed) ]_vars
    /\ [](\A p \in 1 .. total :
            ~InSeq(p, processed) =>
                /\ Count("send", p) = 0
                /\ Count("log_email", p) = 0
                /\ Count("log_event", p) = 0
                /\ \A k \in 1 .. Len(email_logs) : email_logs[k].pos # p)
    /\ [](successful + failed <= Len(processed))

\* stop arrived while the worker was waiting in the pause loop at the
\* second of two rows; the loop was left with that row untouched
C7_Witness ==
    /\ pc = "quit"
    /\ should_stop
    /\ waited
    /\ total = 2
    /\ processed = << 1 >>
    /\ pos = 2

\* C8: with is_paused and should_stop both set, the worker's step out of
\* the pause wait goes to the stop check and from there to finalization,
\* and no further recipient enters processing; resume() is not needed.
C8_StopOverridesPause ==
    [][ (should_stop /\ is_paused /\ WorkerStep) =>
           /\ processed' = processed
           /\ pc = "pause_wait" => pc' = "stop_check"
           /\ pc = "stop_check" => pc' = "quit" ]_vars

\* the worker slept in the pause wait, was stopped, and has reached
\* finalization while is_paused is still set
C8_Witness ==
    /\ pc = "finish"
    /\ is_paused
    /\ should_stop
    /\ waited
    /\ Len(processed) < total

\* C9: a worker in the pause wait with is_paused set and should_stop clear
\* stays there without any effect; and under every interleaving of
\* pause() / resume() the processed recipients are 1, 2, 3, ... in turn,
\* each sent at most once, and all of them by the end of an unstopped run.
C9_PauseResume ==
    /\ [][ (pc = "pause_wait" /\ is_paused /\ ~should_stop /\ WorkerStep) =>
              /\ pc' = "pause_wait"
              /\ UNCHANGED <<successful, failed, trace, processed, pos,
                             email_logs, campaign, summary>> ]_vars
    /\ [](\A k \in 1 .. Len(processed) : processed[k] = k)
    /\ [](\A p \in 1 .. total : Count("send", p) <= 1)
    /\ []((pc = "done" /\ ~should_stop /\ ~NoSession) => Len(processed) = total)

\* the worker waited in the pause loop before the second row, was resumed,
\* and is now processing exactly that row
C9_Witness ==
    /\ pc = "process"
    /\ waited
    /\ ~is_paused
    /\ ~should_stop
    /\ pos = 2
    /\ processed = << 1, 2 >>

PerRecipientKinds == {"send", "log_email", "log_event"}

\* C10: sends, log_email calls and log events occur in input order: none
\* for a later row precedes one for an earlier row, each kind occurs with
\* strictly increasing positions, and the stored rows are in that order.
C10_InputOrder ==
    /\ LET per == { m \in 1 .. Len(trace) : trace[m].kind \in PerRecipientKinds }
       IN  \A m, n \in per :
              m < n =>
                 /\ trace[m].pos <= trace[n].pos
                 /\ trace[m].kind = trace[n].kind => trace[m].pos < trace[n].pos
    /\ \A a, b \in 1 .. Len(email_logs) :
          a < b => email_logs[a].pos < email_logs[b].pos

\* two rows were sent and both outcomes are stored
C10_Witness ==
    /\ pc = "done"
    /\ Count("send", 1) = 1
    /\ Count("log_event", 1) = 1
    /\ Count("send", 2) = 1
    /\ Count("log_event", 2) = 1
    /\ Len(email_logs) = 2

\* the values of the progress events, in the order of emission
LastEvent(k) == CHOOSE m \in EventsOf(k) : \A n \in EventsOf(k) : n <= m

\* C11 (as claimed): every progress value is in 0..100, the values never
\* decrease, and a run that processed every recipient ends on 100, for the
\* index labels that iterrows hands to the loop.
C11_ProgressRange ==
    /\ \A m \in EventsOf("progress") : trace[m].n \in 0 .. 100
    /\ \A m, n \in EventsOf("progress") : m < n => trace[m].n <= trace[n].n
    /\ (pc = "done" /\ ~NoSession /\ total > 0 /\ Len(processed) = total) =>
          trace[LastEvent("progress")].n = 100

\* C13 (as claimed): the pacing sleep follows a processed recipient exactly
\* when it is not the last one and should_stop is clear, so an unstopped run
\* over n recipients sleeps n - 1 times.
C13_Pacing ==
    /\ [][ (pc = "pace" /\ pc' = "loop_top") =>
              ((trace' # trace) <=> (pos < total /\ ~should_stop)) ]_vars
    /\ []((pc = "done" /\ ~NoSession /\ ~should_stop /\ total > 0) =>
              Cardinality(EventsOf("sleep")) = total - 1)

\* a session was returned by connect_smtp
SessionReturned == \E m \in EventsOf("connect") : trace[m].status = "ok"

\* connect_smtp has returned
Connected == pc \notin {"start", "connect"}

\* C14: at most 3 connection attempts; a transient failure of attempt 1 or
\* 2 is followed at once by the retry pause of 5, the third failure by
\* none; failure is reported exactly after an authentication error or
\* three failed attempts, and the first attempt that logs in ends the loop.
C14_ConnectRetries ==
    LET connects == EventsOf("connect")
        sleeps == EventsOf("retry_sleep")
    IN  /\ Cardinality(connects) <= 3
        /\ \A m \in connects :
              /\ trace[m].pos \in 1 .. 3
              /\ (trace[m].status = "transient" /\ trace[m].pos < 3) =>
                    /\ m < Len(trace)
                    /\ trace[m + 1].kind = "retry_sleep"
                    /\ trace[m + 1].n = 5
              /\ (trace[m].status # "transient" \/ trace[m].pos = 3) =>
                    \A n \in connects \cup sleeps : n <= m
        /\ \A m \in sleeps :
              m > 1 /\ trace[m - 1].kind = "connect" /\ trace[m - 1].status = "transient"
        /\ Connected =>
              /\ NoSession <=> ~SessionReturned
              /\ NoSession <=>
                    \/ \E m \in connects : trace[m].status = "auth"
                    \/ Cardinality({ m \in connects :
                                       trace[m].status = "transient" }) = 3

\* the third attempt logged in, after two retry pauses
C14_Witness ==
    /\ pc = "loop_top"
    /\ server = "open"
    /\ Cardinality(EventsOf("connect")) = 3
    /\ Cardinality(EventsOf("retry_sleep")) = 2

\* C15: an authentication error at any attempt ends connect_smtp at once:
\* no retry pause and no connection attempt follows it, and no session is
\* returned.
C15_AuthNotRetried ==
    \A m \in EventsOf("connect") :
        trace[m].status = "auth" =>
            /\ \A n \in EventsOf("connect") \cup EventsOf("retry_sleep") : n <= m
            /\ NoSession
            /\ ~SessionReturned

\* the second attempt, made after a transient failure, was refused for its
\* credentials
C15_Witness ==
    /\ pc = "done"
    /\ Cardinality(EventsOf("connect")) = 2
    /\ trace[LastEvent("connect")].status = "auth"
    /\ trace[LastEvent("connect")].pos = 2

\* C16: finished is emitted at most once, exactly once by the end of run on
\* every path, and nothing is logged, written or reported after it.
C16_FinishedOnce ==
    /\ Cardinality(EventsOf("finished")) <= 1
    /\ summary.emitted <=> EventsOf("finished") # {}
    /\ \A m \in EventsOf("finished") : m = Len(trace)
    /\ pc = "done" <=> summary.emitted

\* the run was stopped, server.quit raised, and finished came last
C16_Witness ==
    /\ pc = "done"
    /\ should_stop
    /\ server = "broken"
    /\ Len(processed) = 1
    /\ trace[Len(trace)].kind = "finished"
    /\ trace[Len(trace) - 1].kind = "quit"

C12_Rounded ==
    Returned("progress_percent") =>
        fn_result.value = (2 * 100 * (fn_call.idx + 1) + fn_call.total)
                             \div (2 * fn_call.total)

\* the address as the validator's deduplication is specified to see it
normalized(email) == strip(lower(email))

\* C18 (as claimed): get_valid_recipients returns no two rows whose
\* addresses are equal after lower-casing and stripping, and of the accepted
\* rows with one normalized address it keeps the first in input order.
C18_Deduplicated ==
    Returned("get_valid_recipients") =>
        LET out == fn_result.value
            accepted == SelectSeq(fn_call.df, LAMBDA r : validate_email(r.Email))
        IN /\ \A a, b \in 1 .. Len(out) :
                 a # b => normalized(out[a].Email) # normalized(out[b].Email)
           /\ \A a \in 1 .. Len(out) : \A k \in 1 .. Len(accepted) :
                 normalized(accepted[k].Email) = normalized(out[a].Email)
                    => accepted[k].label >= out[a].label

\* C19 (as claimed): ExcelProcessor.validate_email accepts exactly the
\* addresses EmailValidator.is_valid accepts, none of which has a leading or
\* trailing dot or two dots in a row.
C19_AddressGrammar ==
    Returned("validate_email") =>
        /\ fn_result.value = is_valid(fn_call.email)
        /\ fn_result.value =>
              /\ Head(fn_call.email) # "."
              /\ fn_call.email[Len(fn_call.email)] # "."
              /\ ~contains(fn_call.email, << ".", "." >>)

\* C20 (as claimed): a token whose identifier equals a column name ignoring
\* case is replaced by that column's value; with values free of braces no
\* such token is left in the rendered text.
C20_CaseInsensitive ==
    (Returned("replace_placeholders")
       /\ \A k \in 1 .. Len(fn_call.row) : fn_call.row[k].value = << "v" >>) =>
        \A k \in 1 .. Len(fn_call.row) : \A t \in ColumnNames :
            lower(t) = lower(fn_call.row[k].col) =>
                ~contains(fn_result.value, << "{" >> \o t \o << "}" >>)

\* C21 (as claimed): at most one worker is active at any time: no
\* EmailSenderThread is started while an earlier one has not emitted its
\* finished signal.
C21_SingleWorker == Cardinality(Running) <= 1

\* C22: for a campaign of at least one recipient, end_time is set exactly
\* when the stored successful + failed has reached total_emails, after any
\* number of outcome recordings; so while fewer recipients than total were
\* processed, as in a run stopped early, end_time is unset.
C22_EndTime ==
    /\ campaign.total_emails > 0 =>
          (campaign.end_time <=>
              campaign.successful + campaign.failed >= campaign.total_emails)
    /\ (total > 0 /\ Len(processed) < total) => ~campaign.end_time

\* both outcomes of a run over two recipients were recorded
C22_Witness ==
    /\ pc = "done"
    /\ total = 2
    /\ campaign.successful + campaign.failed = 2
    /\ campaign.end_time

\* the stored outcome rows of the campaign with status st
RowsWith(st) == { k \in 1 .. Len(email_logs) : email_logs[k].status = st }

\* C23 (as claimed): after every log_email call, whether its statements
\* succeed or fail, the campaign's stored successful counter equals the
\* number of stored Success rows and its failed counter the number of
\* stored Failed rows.
C23_AtomicCounters ==
    /\ campaign.successful = Cardinality(RowsWith("Success"))
    /\ campaign.failed = Cardinality(RowsWith("Failed"))

\* C24: a recipient with an empty address is a failure with the reason
\* "No email address found": nothing is built or handed to the session for
\* it, failed goes up by one and successful stays.
C24_EmptyAddress ==
    /\ [][ (pc = "process" /\ recipients_df[pos].Email = "" /\ WorkerStep) =>
              /\ trace' = trace
              /\ error_msg(send_result') = "No email address found" ]_vars
    /\ [][ (pc = "after_send" /\ recipients_df[pos].Email = "" /\ WorkerStep) =>
              /\ failed' = failed + 1
              /\ successful' = successful
              /\ pc' = "progress" ]_vars
    /\ [](\A p \in 1 .. total :
              recipients_df[p].Email = "" => Count("send", p) = 0)

\* the first recipient had no address and was counted as failed
C24_Witness ==
    /\ pc = "progress"
    /\ pos = 1
    /\ recipients_df[1].Email = ""
    /\ failed = 1
    /\ successful = 0
    /\ EventsOf("send") = {}

\* C25 (as claimed): if every pause() is eventually followed by resume()
\* or stop(), the run eventually emits finished; and once stop() has been
\* invoked the run completes, resumed or not.
C25_Termination ==
    /\ ([](is_paused => <>(~is_paused \/ should_stop))) => <>(pc = "done")
    /\ should_stop ~> (pc = "done")

\* C25 (amended): if from some point on the worker is never left paused
\* without being stopped (pause() is invoked finitely often and the last
\* one is followed by resume() or stop()), the run eventually emits
\* finished; and once stop() has been invoked the run completes, resumed or
\* not.
C25_TerminationFinitePauses ==
    /\ (<>[](~is_paused \/ should_stop)) => <>(pc = "done")
    /\ should_stop ~> (pc = "done")

\* a run paused and then stopped has emitted finished while still paused
C25_Witness ==
    /\ pc = "done"
    /\ summary.emitted
    /\ is_paused
    /\ should_stop
    /\ total = 2
    /\ Len(processed) = 1

\* C26 (as claimed): every stored outcome row, Success or Failed, carries
\* the subject rendered against its recipient's row.
C26_RenderedSubject ==
    \A k \in 1 .. Len(email_logs) :
        email_logs[k].subject =
            replace_placeholders(subject, series(recipients_df[email_logs[k].pos]))

\* the events a step appends to the history
Appended == { m \in 1 .. Len(trace') : m > Len(trace) }

\* C27: once stop() has been invoked no further recipient enters
\* processing, so only the one already past the second stop check is still
\* handled; no pacing wait is started; and a send in flight is carried
\* through whatever the flags are: its outcome is counted, handed to
\* log_email and reported.
C27_StopAtBoundary ==
    /\ [][ should_stop =>
              /\ processed' = processed
              /\ \A m \in Appended :
                    /\ trace'[m].kind # "sleep"
                    /\ trace'[m].kind \in PerRecipientKinds =>
                          /\ processed # << >>
                          /\ trace'[m].pos = processed[Len(processed)] ]_vars
    /\ [][ (pc = "process" /\ WorkerStep) => pc' = "after_send" ]_vars
    /\ [][ (pc = "after_send" /\ send_result # "value_error" /\ WorkerStep) =>
              /\ pc' = "progress"
              /\ successful' + failed' = successful + failed + 1
              /\ \E m \in Appended :
                    trace'[m].kind = "log_email" /\ trace'[m].pos = pos
              /\ \E m \in Appended :
                    trace'[m].kind = "log_event" /\ trace'[m].pos = pos ]_vars

\* stop arrived while the first of two recipients was being handled: its
\* outcome was reported, no pacing wait followed, and the loop was left
C27_Witness ==
    /\ pc = "quit"
    /\ should_stop
    /\ total = 2
    /\ pos = 2
    /\ processed = << 1 >>
    /\ recipients_df[1].label = 0
    /\ Count("send", 1) = 1
    /\ Count("log_event", 1) = 1
    /\ EventsOf("sleep") = {}

\* both statements of every log_email call made so far went through
AllStored ==
    LET calls == Cardinality(EventsOf("log_email"))
    IN /\ Len(email_logs) = calls
       /\ campaign.successful + campaign.failed = calls

\* C28 (as claimed): after a run that had a session, was not stopped and
\* processed every recipient, with the store accepting every write, the
\* campaign's stored counters equal the summary's counts and end_time is
\* set, also when a recipient has an empty address.
C28_StoreMatchesSummary ==
    (pc = "done" /\ ~NoSession /\ ~should_stop /\ total > 0
       /\ Len(processed) = total /\ AllStored) =>
        /\ campaign.successful = summary.successful
        /\ campaign.failed = summary.failed
        /\ campaign.end_time

\* the same columns in the opposite order
Reverse(s) == [k \in 1 .. Len(s) |-> s[Len(s) + 1 - k]]

\* no two columns of the row have the same placeholder
DistinctPlaceholders(row) ==
    \A a, b \in 1 .. Len(row) : a # b => lower(row[a].col) # lower(row[b].col)

\* C29 (as claimed): a token inside a substituted value is not expanded
\* again, so the rendered text does not depend on the order in which the
\* row's columns are visited.
C29_OrderIndependent ==
    (Returned("replace_placeholders") /\ DistinctPlaceholders(fn_call.row)) =>
        fn_result.value = replace_placeholders(fn_call.text, Reverse(fn_call.row))

\* the column names of a row
Columns(row) == { row[k].col : k \in 1 .. Len(row) }

\* C30 (as claimed): when validate_placeholders reports nothing missing
\* for a template and the columns of a row whose values have no braces,
\* the text rendered by replace_placeholders contains none of the tokens
\* extract_placeholders finds in the template.
C30_CheckAgreesWithRenderer ==
    (/\ Returned("replace_placeholders")
     /\ \A k \in 1 .. Len(fn_call.row) : fn_call.row[k].value = << "v" >>
     /\ validate_placeholders(fn_call.text, Columns(fn_call.row)) = {}) =>
        \A ph \in extract_placeholders(fn_call.text) :
            ~contains(fn_result.value, << "{" >> \o ph \o << "}" >>)

====
